---- MODULE Spec2Model ----
(***************************************************************************)
(* Model of the OnlineBk backend: the auth routes of src/routes/Auth.js    *)
(* (register, login, me), the guard of src/authMiddleware.js, the User     *)
(* schema of src/models/User.js and the rating route of src/app.js over    *)
(* the Product schema of src/product.js.                                   *)
(*                                                                         *)
(* JavaScript strings are sequences of one-character strings; the value    *)
(* `undefined` is the one-element sequence <<"undefined">>, which no       *)
(* input string of the model equals.  Every `await` of a handler ends a    *)
(* step, so handlers of different requests interleave at their awaits.     *)
(* req holds the requests in flight under the number they arrived with,    *)
(* last the request answered last with its answer; registered and issued   *)
(* log what the clients hold: the credentials Register answered 201 for    *)
(* and the tokens Login handed out.                                        *)
(***************************************************************************)
EXTENDS Integers, Sequences, FiniteSets, TLC

VARIABLES users, started, clock, req, last, registered, issued, products, rateReq

vars == <<users, started, clock, req, last, registered, issued, products, rateReq>>

\* Bounds of the model.
MaxRequests == 3
MaxClock == 1
MaxRateRequests == 3

-----------------------------------------------------------------------------
(* JavaScript values *)

undefined == <<"undefined">>

\* `!v` for v a string or undefined.
FalsyOnlyUndefined(v) == v = undefined

Falsy(v) == v = undefined \/ v = <<>>

TypeOf(v) == IF v = undefined THEN "undefined" ELSE "string"

ObjectId(n) == <<"oid", n>>

\* obj.p for a property the object may lack.
Get(obj, p) == IF p \in DOMAIN obj THEN obj[p] ELSE undefined

\* res.json(obj): JSON.stringify leaves out the keys whose value is undefined.
Json(obj) == [k \in {p \in DOMAIN obj : obj[p] # undefined} |-> obj[k]]

\* The handler's local variables, which end with it.
Locals == {"newUser", "user", "rating"}

\* res.status(status).json(json) ends the request.
Done(r, status, json) ==
    [f \in (DOMAIN r \ Locals) \cup {"status", "json"} |->
        CASE f = "status" -> status
          [] f = "json" -> json
          [] f = "pc" -> "done"
          [] OTHER -> r[f]]

-----------------------------------------------------------------------------
(* Inputs *)

Alice == <<"a", "@", "x", ".", "c">>
Bob == <<"b", "@", "x", ".", "c">>
NoDomain == <<"a", "@", "x">>

Pw1 == <<"p", "1">>
Pw2 == <<"p", "2">>

NoFile == [mimetype |-> "none", path |-> undefined]
Jpeg == [mimetype |-> "image/jpeg", path |-> <<"u", "1", ".", "j">>]
Pdf == [mimetype |-> "application/pdf", path |-> <<"u", "2", ".", "p">>]

FullBody(email) == [name |-> <<"A">>, email |-> email, phone |-> <<"1">>, password |-> Pw1]

\* The register requests: two complete ones (one with a picture), one whose
\* email has no domain suffix, one per missing or empty field, and two whose
\* upload is no image.
RegisterInputs ==
    {<<FullBody(Alice), NoFile>>,
     <<FullBody(Bob), Jpeg>>,
     <<FullBody(NoDomain), NoFile>>,
     <<[FullBody(Alice) EXCEPT !.name = undefined], NoFile>>,
     <<[FullBody(Alice) EXCEPT !.email = <<>>], NoFile>>,
     <<[FullBody(Alice) EXCEPT !.phone = <<>>], NoFile>>,
     <<[FullBody(Alice) EXCEPT !.password = undefined], NoFile>>,
     <<FullBody(Alice), Pdf>>,
     <<[FullBody(Alice) EXCEPT !.name = undefined], Pdf>>}

LoginBodies ==
    {[email |-> Alice, password |-> p] : p \in {Pw1, Pw2, undefined}}
        \cup {[email |-> Bob, password |-> Pw1]}

-----------------------------------------------------------------------------
(* src/models/User.js *)

UserSchemaPaths == {"name", "email", "phone", "password"}

\* /.+\@.+\..+/ : unanchored, one or more characters, "@", one or more
\* characters, ".", one or more characters.
EmailMatch(s) ==
    \E i \in 1..Len(s), j \in 1..Len(s) :
        /\ 2 <= i
        /\ s[i] = "@"
        /\ i + 2 <= j
        /\ s[j] = "."
        /\ j < Len(s)

\* new User(obj): the schema is strict, so only its paths are kept; the
\* driver assigns _id when the document is constructed.
NewUser(obj, id) ==
    [p \in UserSchemaPaths \cup {"_id"} |-> IF p = "_id" THEN id ELSE obj[p]]

\* The validators save() runs before the insert: required on the four
\* paths (an empty string fails required), match on email.
UserValidationError(doc) ==
    \/ \E p \in UserSchemaPaths : doc[p] = undefined \/ doc[p] = <<>>
    \/ ~EmailMatch(doc.email)

\* The unique index on email.
DuplicateKey(store, doc) == \E u \in store : u.email = doc.email

\* User.findOne({ email }): the matching record, or null.
null == [null |-> TRUE]

FindOneNothing(store, email) == null

FindOne(store, email) ==
    IF \E u \in store : u.email = email
        THEN CHOOSE u \in store : u.email = email
        ELSE null

PublicView(user) ==
    Json([id |-> user["_id"],
          name |-> Get(user, "name"),
          email |-> Get(user, "email"),
          phone |-> Get(user, "phone"),
          profilePicture |-> Get(user, "profilePicture")])

-----------------------------------------------------------------------------
(* bcryptjs *)

SaltRounds == 10

\* bcrypt.hash(password, 10): the hash string "$2a$10$<salt><digest>"; the
\* digest is written as the salt and the password it is computed from.
BcryptHash(password, salt) == <<"$2a$", SaltRounds, salt, <<"H", salt, password>>>>

\* bcrypt.compare(s, hash): recomputes the hash with the salt of hash.
BcryptCompare(s, hash) == BcryptHash(s, hash[3]) = hash

-----------------------------------------------------------------------------
(* jsonwebtoken *)

Secret == "JWT_SECRET"
OtherSecret == "not the server secret"

\* expiresIn: '1h', in the unit of the clock (one tick is one hour).
ExpiresIn == 1

Signature(payload, secret) == <<secret, payload>>

JwtSignNoLifetime(payload, secret, now) ==
    [kind |-> "jwt",
     payload |-> payload @@ [iat |-> now, exp |-> now],
     sig |-> Signature(payload @@ [iat |-> now, exp |-> now], secret)]

\* jwt.sign(payload, secret, { expiresIn: '1h' })
JwtSign(payload, secret, now) ==
    LET claims == payload @@ [iat |-> now, exp |-> now + ExpiresIn]
    IN [kind |-> "jwt", payload |-> claims, sig |-> Signature(claims, secret)]

JwtVerifyIgnoreExpiration(token, secret, now) ==
    IF token.kind # "jwt" THEN [ok |-> FALSE, error |-> "jwt malformed"]
    ELSE IF token.sig # Signature(token.payload, secret)
        THEN [ok |-> FALSE, error |-> "invalid signature"]
    ELSE [ok |-> TRUE, decoded |-> token.payload]

\* jwt.verify(token, secret): the decoded payload, or the error it throws.
JwtVerify(token, secret, now) ==
    IF token.kind # "jwt" THEN [ok |-> FALSE, error |-> "jwt malformed"]
    ELSE IF token.sig # Signature(token.payload, secret)
        THEN [ok |-> FALSE, error |-> "invalid signature"]
    ELSE IF now >= token.payload.exp
        THEN [ok |-> FALSE, error |-> "jwt expired"]
    ELSE [ok |-> TRUE, decoded |-> token.payload]

-----------------------------------------------------------------------------
(* Requests *)

InFlight == DOMAIN req

NoResponse == [kind |-> "none", pc |-> "none"]

\* The answer r goes out: it is the last one, and the logs take what the
\* client now holds.
Answer(r) ==
    /\ last' = r
    /\ registered' =
           IF r.kind = "register" /\ r.status = 201
               THEN registered \cup {[email |-> r.body.email, password |-> r.body.password]}
               ELSE registered
    /\ issued' =
           IF r.kind = "login" /\ r.status = 200
               THEN issued \cup {[token |-> r.json.token, email |-> r.body.email]}
               ELSE issued

\* A request arrives and runs to its first await, or to its answer.
Begin(r) ==
    /\ started < MaxRequests
    /\ started' = started + 1
    /\ IF r.pc = "done"
           THEN Answer(r) /\ UNCHANGED req
           ELSE req' = req @@ ((started + 1) :> r) /\ UNCHANGED <<last, registered, issued>>

\* Request i runs from one await to the next, or to its answer.
Resume(i, r) ==
    /\ started' = started
    /\ IF r.pc = "done"
           THEN Answer(r) /\ req' = [j \in InFlight \ {i} |-> req[j]]
           ELSE req' = [req EXCEPT ![i] = r] /\ UNCHANGED <<last, registered, issued>>

-----------------------------------------------------------------------------
(* src/routes/Auth.js: POST /register *)

\* fileFilter of the upload middleware: no file, or an image, passes.
FileFilter(file) == file = NoFile \/ file.mimetype \in {"image/jpeg", "image/png"}

RequiredFields == {"name", "email", "phone", "password"}

AllFieldsPresent(body) == \A f \in RequiredFields : ~Falsy(body[f])

\* upload.single('profilePicture') and the handler up to its first await.
\* priorOk notes whether a Register of this email was answered 201 before.
RegisterStart(body, file) ==
    /\ LET r == [kind |-> "register", pc |-> "find", body |-> body, file |-> file,
                 priorOk |-> \E q \in registered : q.email = body.email,
                 presentAtSave |-> FALSE,
                 reads |-> 0, hashes |-> 0, writes |-> 0]
       IN Begin(IF ~FileFilter(file)
                    THEN Done(r, 500, [message |-> "Internal Server Error",
                                       error |-> "Unsupported file format"])
                ELSE IF ~AllFieldsPresent(body)
                    THEN Done(r, 400, [message |-> "All fields are required"])
                ELSE r)
    /\ UNCHANGED <<users, clock, products, rateReq>>

\* const existingUser = await User.findOne({ email })
RegisterFind(i) ==
    /\ req[i].kind = "register" /\ req[i].pc = "find"
    /\ LET r == [req[i] EXCEPT !.reads = @ + 1]
       IN Resume(i, IF FindOne(users, r.body.email) # null
                        THEN Done(r, 400, [message |-> "User already exists"])
                        ELSE [r EXCEPT !.pc = "hash"])
    /\ UNCHANGED <<users, clock, products, rateReq>>

\* const hashedPassword = await bcrypt.hash(password, 10); new User({...}).
\* The salt and the _id are fresh: they are made from the request's number.
RegisterHash(i) ==
    /\ req[i].kind = "register" /\ req[i].pc = "hash"
    /\ LET r == req[i]
           hashedPassword == BcryptHash(r.body.password, i)
           newUser == NewUser([name |-> r.body.name,
                               email |-> r.body.email,
                               phone |-> r.body.phone,
                               password |-> hashedPassword,
                               profilePicture |->
                                   IF r.file # NoFile THEN r.file.path ELSE <<>>],
                              ObjectId(i))
       IN Resume(i, [r EXCEPT !.pc = "save", !.hashes = @ + 1] @@ [newUser |-> newUser])
    /\ UNCHANGED <<users, clock, products, rateReq>>

SaveInsertsInvalid(store, doc) ==
    IF UserValidationError(doc)
        THEN [ok |-> FALSE, error |-> "User validation failed", store |-> store \cup {doc}]
    ELSE IF DuplicateKey(store, doc)
        THEN [ok |-> FALSE, error |-> "E11000 duplicate key error", store |-> store]
    ELSE [ok |-> TRUE, store |-> store \cup {doc}]

\* newUser.save(): validation, then the insert under the unique index.
Save(store, doc) ==
    IF UserValidationError(doc)
        THEN [ok |-> FALSE, error |-> "User validation failed", store |-> store]
    ELSE IF DuplicateKey(store, doc)
        THEN [ok |-> FALSE, error |-> "E11000 duplicate key error", store |-> store]
    ELSE [ok |-> TRUE, store |-> store \cup {doc}]

\* await newUser.save(); res.status(201).json(...), or the catch block.
\* presentAtSave notes whether the email was in the store when save ran.
RegisterSave(i) ==
    /\ req[i].kind = "register" /\ req[i].pc = "save"
    /\ LET r == [req[i] EXCEPT !.presentAtSave = \E u \in users : u.email = req[i].body.email]
           saved == Save(users, r.newUser)
       IN /\ users' = saved.store
          /\ Resume(i, IF saved.ok
                           THEN Done([r EXCEPT !.writes = @ + 1], 201,
                                     [message |-> "User registered successfully",
                                      user |-> PublicView(r.newUser)])
                           ELSE Done(r, 500, [message |-> "Server error",
                                              error |-> saved.error]))
    /\ UNCHANGED <<clock, products, rateReq>>

-----------------------------------------------------------------------------
(* src/routes/Auth.js: POST /login *)

\* knownUser notes whether a Register with this email and this password
\* was answered 201 before.
LoginStart(body) ==
    /\ Begin([kind |-> "login", pc |-> "find", body |-> body,
              knownUser |-> [email |-> body.email, password |-> body.password] \in registered,
              reads |-> 0, writes |-> 0])
    /\ UNCHANGED <<users, clock, products, rateReq>>

\* const user = await User.findOne({ email }) and the check of its result.
LoginFound(store, r) ==
    LET user == FindOne(store, r.body.email)
        read == [r EXCEPT !.reads = @ + 1]
    IN IF user = null
           THEN Done(read, 400, [message |-> "Invalid email or password"])
           ELSE [read EXCEPT !.pc = "compare"] @@ [user |-> user]

LoginFind(i) ==
    /\ req[i].kind = "login" /\ req[i].pc = "find"
    /\ Resume(i, LoginFound(users, req[i]))
    /\ UNCHANGED <<users, clock, products, rateReq>>

\* await bcrypt.compare(password, user.password), jwt.sign, the response;
\* compare throws on a password that is no string.
LoginCompared(r, now) ==
    IF TypeOf(r.body.password) # "string"
        THEN Done(r, 500, [message |-> <<"Illegal arguments: ",
                                         TypeOf(r.body.password), ", string">>])
    ELSE IF ~BcryptCompare(r.body.password, r.user.password)
        THEN Done(r, 400, [message |-> "Invalid email or password"])
    ELSE Done(r, 200, [token |-> JwtSign([id |-> r.user["_id"]], Secret, now),
                       user |-> PublicView(r.user)])

LoginCompare(i) ==
    /\ req[i].kind = "login" /\ req[i].pc = "compare"
    /\ Resume(i, LoginCompared(req[i], clock))
    /\ UNCHANGED <<users, clock, products, rateReq>>

-----------------------------------------------------------------------------
(* src/authMiddleware.js and GET /me *)

\* The pieces of a header or of a token string.
Text(s) == [kind |-> "text", s |-> s]
NoSegment == [kind |-> "undefined"]

NoHeader == [present |-> FALSE, parts |-> <<>>]
Header(parts) == [present |-> TRUE, parts |-> parts]

\* `!token` for a piece of the header.
FalsySegment(t) == t = NoSegment \/ t = Text("")

\* req.header('Authorization')?.split(' ')[1]; a header is written as the
\* pieces between its spaces.
TokenSegment(header) ==
    IF header.present /\ Len(header.parts) >= 2 THEN header.parts[2] ELSE NoSegment

\* The guard followed by the handler of /me, which next() runs at once.
AuthMiddleware(header, now) ==
    LET token == TokenSegment(header)
        verified == JwtVerify(token, Secret, now)
    IN IF FalsySegment(token)
           THEN [status |-> 401, nextCalls |-> 0, answers |-> 1,
                 json |-> [message |-> "Authorization denied. No token provided."]]
       ELSE IF verified.ok
           THEN [status |-> 200, nextCalls |-> 1, answers |-> 1,
                 json |-> verified.decoded]
       ELSE [status |-> 401, nextCalls |-> 0, answers |-> 1,
             json |-> [message |-> "Token is not valid"]]

\* The tokens the Login responses so far carry.
IssuedTokens == {e.token : e \in issued}

\* Tokens made outside the server: a well-signed one whose expiry is past,
\* one signed with another secret, an issued one with its expiry pushed on.
CraftedTokens ==
    {JwtSign([id |-> ObjectId(1)], Secret, 0 - ExpiresIn),
     JwtSign([id |-> ObjectId(1)], OtherSecret, MaxClock)}
        \cup {[t EXCEPT !.payload.exp = @ + 1] : t \in IssuedTokens}

Headers ==
    {NoHeader, Header(<<Text("Bearer")>>), Header(<<Text("Bearer"), Text("abc")>>)}
        \cup {Header(<<Text("Bearer"), t>>) : t \in IssuedTokens \cup CraftedTokens}

Me(header) ==
    /\ Begin([kind |-> "me", pc |-> "done", header |-> header, at |-> clock,
              reads |-> 0, writes |-> 0] @@ AuthMiddleware(header, clock))
    /\ UNCHANGED <<users, clock, products, rateReq>>

Tick ==
    /\ clock < MaxClock
    /\ clock' = clock + 1
    /\ UNCHANGED <<users, started, req, last, registered, issued, products, rateReq>>

-----------------------------------------------------------------------------
(* src/app.js: POST /api/products/:id/rate over src/product.js *)

RECURSIVE Gcd(_, _)
Gcd(a, b) == IF b = 0 THEN a ELSE Gcd(b, a % b)

\* Numbers of the rating are fractions <<numerator, denominator>> in lowest terms.
Fraction(n, d) == <<n \div Gcd(n, d), d \div Gcd(n, d)>>

\* rating: { averageRating: default 0, numberOfRatings: default 0 }
DefaultRating == [averageRating |-> Fraction(0, 1), numberOfRatings |-> 0]

ProductIds == {"p1", "p2"}
MissingId == "p3"

RateBodies == {[newRating |-> n] : n \in {0, 1, 2, 5, 6}} \cup {[other |-> 0]}

\* !newRating || newRating < 1 || newRating > 5
RatingInvalid(body) ==
    \/ "newRating" \notin DOMAIN body
    \/ body.newRating = 0
    \/ body.newRating < 1
    \/ body.newRating > 5

\* totalRating / updatedNumberOfRatings from the rating that was read.
UpdatedRating(rating, newRating) ==
    LET num == rating.averageRating[1]
        den == rating.averageRating[2]
        totalNum == num * rating.numberOfRatings + newRating * den
        updatedNumberOfRatings == rating.numberOfRatings + 1
    IN [averageRating |-> Fraction(totalNum, den * updatedNumberOfRatings),
        numberOfRatings |-> updatedNumberOfRatings]

RateStart(id, body) ==
    /\ Len(rateReq) < MaxRateRequests
    /\ LET r == [kind |-> "rate", pc |-> "find", id |-> id, body |-> body]
       IN rateReq' = Append(rateReq,
              IF RatingInvalid(body)
                  THEN Done(r, 400, [message |-> "Rating must be between 1 and 5"])
                  ELSE r)
    /\ UNCHANGED <<users, started, clock, req, last, registered, issued, products>>

\* const product = await Product.findById(id), and the new rating computed
\* on the document that was read.
RateFind(i) ==
    /\ rateReq[i].pc = "find"
    /\ LET r == rateReq[i]
       IN rateReq' = [rateReq EXCEPT ![i] =
              IF r.id \notin DOMAIN products
                  THEN Done(r, 404, [message |-> "Product not found"])
                  ELSE [r EXCEPT !.pc = "save"]
                           @@ [rating |-> UpdatedRating(products[r.id], r.body.newRating)]]
    /\ UNCHANGED <<users, started, clock, req, last, registered, issued, products>>

\* await product.save(); res.status(200).json(product)
RateSave(i) ==
    /\ rateReq[i].pc = "save"
    /\ products' = [products EXCEPT ![rateReq[i].id] = rateReq[i].rating]
    /\ rateReq' = [rateReq EXCEPT ![i] = Done(@, 200, [rating |-> rateReq[i].rating])]
    /\ UNCHANGED <<users, started, clock, req, last, registered, issued>>

-----------------------------------------------------------------------------
(* Specifications *)

Init ==
    /\ users = {}
    /\ started = 0
    /\ clock = 0
    /\ req = <<>>
    /\ last = NoResponse
    /\ registered = {}
    /\ issued = {}
    /\ products = [id \in ProductIds |-> DefaultRating]
    /\ rateReq = <<>>

Next ==
    \/ \E input \in RegisterInputs : RegisterStart(input[1], input[2])
    \/ \E i \in InFlight : RegisterFind(i)
    \/ \E i \in InFlight : RegisterHash(i)
    \/ \E i \in InFlight : RegisterSave(i)
    \/ \E body \in LoginBodies : LoginStart(body)
    \/ \E i \in InFlight : LoginFind(i)
    \/ \E i \in InFlight : LoginCompare(i)
    \/ \E header \in Headers : Me(header)
    \/ Tick

Spec == Init /\ [][Next]_vars

RateNext ==
    \/ \E id \in ProductIds \cup {MissingId}, body \in RateBodies : RateStart(id, body)
    \/ \E i \in 1..Len(rateReq) : RateFind(i)
    \/ \E i \in 1..Len(rateReq) : RateSave(i)

RateSpec == Init /\ [][RateNext]_vars

-----------------------------------------------------------------------------
(* Properties *)

\* What the properties say of a request, in their own words.
MissingField(body) ==
    \E f \in {"name", "email", "phone", "password"} : body[f] = undefined \/ body[f] = <<>>

UploadAccepted(file) == file = NoFile \/ file.mimetype = "image/jpeg" \/ file.mimetype = "image/png"

RecordsWith(email) == {u \in users : u.email = email}

Conflict == [message |-> "User already exists"]

C2_FailedLoginIndistinguishable ==
    (last.kind = "login" /\ last.status # 200) =>
        \A store \in {users, users \ RecordsWith(last.body.email)} :
            LET other == LoginFound(store, [last EXCEPT !.pc = "find", !.reads = 0])
                answer == IF other.pc = "done" THEN other ELSE LoginCompared(other, clock)
            IN answer.status # 200 =>
                   answer.status = last.status /\ answer.json = last.json

\* C3: the guard calls next exactly when the header has a second piece that
\* is a token signed with the server secret and not yet expired; otherwise
\* it answers 401, once, and next does not run.
C3_GuardAcceptsExactlyValidTokens ==
    last.kind = "me" =>
        LET parts == last.header.parts
            valid == /\ last.header.present
                     /\ Len(parts) >= 2
                     /\ parts[2].kind = "jwt"
                     /\ parts[2].sig = <<Secret, parts[2].payload>>
                     /\ last.at < parts[2].payload.exp
        IN /\ last.nextCalls = 1 <=> valid
           /\ last.answers = 1
           /\ ~valid => last.status = 401 /\ last.nextCalls = 0

C3_Witness ==
    /\ last.kind = "me"
    /\ last.nextCalls = 1
    /\ last.header.parts[2] \in IssuedTokens

\* C4: a Login with the email and password of a user registered before is
\* answered 200; a Login answered 200 carries a token whose id, like the
\* user.id beside it, is the stored id of the record with that email, and
\* whose expiry is one hour after its issue; and /me, given 'Bearer' and
\* an issued token before its expiry, answers 200 with that id.
C4_LoginTokenRoundTrip ==
    /\ (last.kind = "login" /\ last.knownUser) => last.status = 200
    /\ (last.kind = "login" /\ last.status = 200) =>
           \E u \in users :
               /\ u.email = last.body.email
               /\ last.json.token.payload.id = u["_id"]
               /\ last.json.user.id = u["_id"]
               /\ last.json.token.payload.exp = last.json.token.payload.iat + ExpiresIn
    /\ last.kind = "me" =>
           \A e \in issued :
               (last.header = Header(<<Text("Bearer"), e.token>>)
                    /\ last.at < e.token.payload.exp) =>
                   /\ last.status = 200
                   /\ last.nextCalls = 1
                   /\ \E u \in users : u.email = e.email /\ last.json.id = u["_id"]

C4_Witness ==
    /\ last.kind = "me"
    /\ last.status = 200
    /\ \E e \in issued, u \in users :
           /\ last.header = Header(<<Text("Bearer"), e.token>>)
           /\ u.email = e.email
           /\ last.json.id = u["_id"]

\* C5: a Register that passed the 'not found' check and finds the email in
\* the store when it saves is answered 400 'User already exists', and the
\* store never holds two records with one email.
C5_RaceAnsweredConflict ==
    /\ (last.kind = "register" /\ last.hashes = 1 /\ last.presentAtSave) =>
           last.status = 400 /\ last.json = Conflict
    /\ \A u \in users, v \in users : u.email = v.email => u = v

\* C6: a Register answered 201 carries the public view id, name, email,
\* phone, profilePicture without the password hash: name, email and phone
\* are the request's, profilePicture is the empty string without a file and
\* the file's path with one.
C6_PublicView ==
    (last.kind = "register" /\ last.status = 201) =>
        LET view == last.json.user
        IN /\ "password" \notin DOMAIN view
           /\ view.name = last.body.name
           /\ view.email = last.body.email
           /\ view.phone = last.body.phone
           /\ "profilePicture" \in DOMAIN view
           /\ view.profilePicture = IF last.file = NoFile THEN <<>> ELSE last.file.path

C8_MalformedEmailRejected ==
    (last.kind = "register" /\ ~MissingField(last.body) /\ UploadAccepted(last.file)
         /\ ~EmailMatch(last.body.email)) =>
        /\ last.status = 400
        /\ last.writes = 0
        /\ RecordsWith(last.body.email) = {}

\* One step of the store and of the answers, as C9 allows it.
C9_Step ==
    /\ users \subseteq users'
    /\ users' # users =>
           /\ last'.kind = "register" /\ last'.status = 201 /\ last'.writes = 1
           /\ \E doc \in users' :
                  /\ users' = users \cup {doc}
                  /\ RecordsWith(doc.email) = {}
                  /\ doc["_id"] = last'.json.user.id
    /\ (last'.kind = "register" /\ last' # last /\ last'.status # 201) =>
           users' = users /\ last'.writes = 0
    /\ last'.kind = "login" => last'.writes = 0 /\ last'.reads = 1
    /\ last'.kind = "me" => last'.writes = 0 /\ last'.reads = 0

\* C9: in every step the store either stays as it is or gains one record,
\* new in its email, in the step that answers a Register with 201 and that
\* record's id; no record is ever changed or removed; Login and /me leave
\* the store alone and /me reads nothing from it; a Register answered
\* otherwise wrote nothing.
C9_StoreFrame == [][C9_Step]_vars

C9_Witness ==
    /\ last.kind = "me"
    /\ users # {}
    /\ issued # {}

\* The rate requests on a product that were answered 200, and their sum.
Rated(id) ==
    {i \in 1..Len(rateReq) :
        rateReq[i].pc = "done" /\ rateReq[i].status = 200 /\ rateReq[i].id = id}

RECURSIVE SumOfRatings(_)
SumOfRatings(S) ==
    IF S = {} THEN 0
    ELSE LET i == CHOOSE j \in S : TRUE
         IN rateReq[i].body.newRating + SumOfRatings(S \ {i})

\* C10: each product's numberOfRatings is the number of rate requests on it
\* answered 200, and averageRating * numberOfRatings is the sum of their
\* ratings.
C10_RatingCountsEveryRequest ==
    \A id \in ProductIds :
        /\ products[id].numberOfRatings = Cardinality(Rated(id))
        /\ products[id].averageRating[1] * products[id].numberOfRatings
               = SumOfRatings(Rated(id)) * products[id].averageRating[2]

====
